---- MODULE Spec2Model ----
(***************************************************************************)
(* Model of front/src/socket_connect.ts: the SocketHandler that binds one  *)
(* client socket to a back-server channel and an optional workspace.       *)
(*                                                                         *)
(* One SocketHandler instance is modelled.  Its fields, the listener       *)
(* tables of the three event emitters it owns (socket, back, workspace),   *)
(* the two Async.auto tasks and the collaborator calls in flight are the   *)
(* state.  Every handler of the class is an operator from a state record   *)
(* to a state record; an action runs the handlers one event triggers and   *)
(* commits the resulting record.                                           *)
(***************************************************************************)
EXTENDS Integers, Sequences, FiniteSets, Bags, TLC

VARIABLES
    socketL,      \* socket: number of listeners registered per event
    connected,    \* socket: the client has not disconnected yet
    backL,        \* back: number of listeners registered per event
    backSub,      \* back: subscribe() called more recently than unsubscribe()
    backSessCode, \* back: the session code set by back.setSessCode
    wsArgs,       \* the constructed workspace object: class and constructor arguments
    wsL,          \* workspace object: number of listeners registered per event
    wsSub,        \* workspace object: subscribed
    wsSessCode,   \* workspace object: its sessCode field as written by the handler
    workspace,    \* this.workspace: Null or a reference to the workspace object
    user,         \* this.user
    bucketId,     \* this.bucketId
    destroyed,    \* this.destroyed
    auto,         \* Async.auto: state and result of the tasks user and init
    pending,      \* bag of collaborator calls whose callback has not run yet
    buckets,      \* the Bucket collection: owner of each bucket id, or NoOwner
    emitted,      \* socket.emit calls made by the last step, in order
    backCalls,    \* calls made on this.back by the last step, in order
    wsCalls,      \* calls made on the workspace object by the last step, in order
    ev,           \* the event the last step handled
    joinCount,    \* number of times Async.auto has invoked init_session
    signalled,    \* a termination signal has been handled (history)
    signalledEarly, \* ... and one was handled before both startup tasks had a result
    crashed       \* a handler threw: the process is gone

vars == <<socketL, connected, backL, backSub, backSessCode, wsArgs, wsL, wsSub,
          wsSessCode, workspace, user, bucketId, destroyed, auto, pending, buckets,
          emitted, backCalls, wsCalls, ev, joinCount, signalled, signalledEarly,
          crashed>>

(***************************************************************************)
(* Bounds of the model.                                                    *)
(***************************************************************************)
MaxPending == 1   \* collaborator calls in flight at once, those of startup aside
MaxJoin == 2      \* cap of the joinCount history counter

(***************************************************************************)
(* JavaScript values.  Every value is a record with a type tag t, so that  *)
(* null, undefined, 0, "" and objects can be told apart and compared.      *)
(* A string is a sequence of pieces so that + can be modelled.             *)
(***************************************************************************)
Undef == [t |-> "undefined"]
Null == [t |-> "null"]
Str(x) == [t |-> "string", v |-> IF x = "" THEN <<>> ELSE <<x>>]
Num(n) == [t |-> "number", v |-> n]
Bool(b) == [t |-> "boolean", v |-> b]
Concat(a, b) == [t |-> "string", v |-> a.v \o b.v]

Falsy(x) ==
    \/ x.t \in {"undefined", "null"}
    \/ x.t = "string" /\ x.v = <<>>
    \/ x.t = "number" /\ x.v = 0
    \/ x.t = "boolean" /\ ~x.v

JsAnd(a, b) == IF Falsy(a) THEN a ELSE b
JsOr(a, b) == IF Falsy(a) THEN b ELSE a
Get(o, f) == IF o.t = "object" /\ f \in DOMAIN o THEN o[f] ELSE Undef

(***************************************************************************)
(* Event names.  A name a client sends is a sequence of characters, so     *)
(* that name.substr(0,3) is computed and not assumed.                      *)
(***************************************************************************)
N_init == <<"i", "n", "i", "t">>
N_enroll == <<"e", "n", "r", "o", "l", "l">>
N_update_students ==
    <<"u", "p", "d", "a", "t", "e", "_", "s", "t", "u", "d", "e", "n", "t", "s">>
N_unenroll_student ==
    <<"o", "o", ".", "u", "n", "e", "n", "r", "o", "l", "l", "_",
      "s", "t", "u", "d", "e", "n", "t">>
N_reenroll_student ==
    <<"o", "o", ".", "r", "e", "e", "n", "r", "o", "l", "l", "_",
      "s", "t", "u", "d", "e", "n", "t">>
N_ping == <<"o", "o", ".", "p", "i", "n", "g">>
N_toggle_sharing ==
    <<"o", "o", ".", "t", "o", "g", "g", "l", "e", "_",
      "s", "h", "a", "r", "i", "n", "g">>
N_reconnect == <<"o", "o", ".", "r", "e", "c", "o", "n", "n", "e", "c", "t">>
N_set_password ==
    <<"o", "o", ".", "s", "e", "t", "_", "p", "a", "s", "s", "w", "o", "r", "d">>
N_delete_bucket ==
    <<"o", "o", ".", "d", "e", "l", "e", "t", "e", "_", "b", "u", "c", "k", "e", "t">>
N_data == <<"d", "a", "t", "a">>
N_save == <<"s", "a", "v", "e">>
N_ot_insert == <<"o", "t", ".", "i", "n", "s", "e", "r", "t">>
N_ws_rename == <<"w", "s", ".", "r", "e", "n", "a", "m", "e">>
N_other == <<"a", "n", "y", "t", "h", "i", "n", "g", ".", "e", "l", "s", "e">>
N_ot == <<"o", "t">>

Reserved ==
    {N_init, N_enroll, N_update_students, N_unenroll_student, N_reenroll_student,
     N_ping, N_toggle_sharing, N_reconnect, N_set_password, N_delete_bucket}

Substr03(name) == SubSeq(name, 1, IF Len(name) < 3 THEN Len(name) ELSE 3)
PrefixOt == <<"o", "t", ".">>
PrefixWs == <<"w", "s", ".">>

SockEvents == {"*", "disconnect", "init"}
BackEvents == {"data", "destroy-u"}
WsEvents == {"data", "message", "sesscode", "back", "log"}

NoOwner == "none"
BucketIds == {"b1", "b2"}

(***************************************************************************)
(* The state record the handlers work on, and its commit to the variables. *)
(***************************************************************************)
State ==
    [socketL |-> socketL, connected |-> connected, backL |-> backL,
     backSub |-> backSub, backSessCode |-> backSessCode, wsArgs |-> wsArgs,
     wsL |-> wsL, wsSub |-> wsSub, wsSessCode |-> wsSessCode,
     workspace |-> workspace, user |-> user, bucketId |-> bucketId,
     destroyed |-> destroyed, auto |-> auto, pending |-> pending,
     buckets |-> buckets, emitted |-> emitted, backCalls |-> backCalls,
     wsCalls |-> wsCalls, ev |-> ev, joinCount |-> joinCount,
     signalled |-> signalled, signalledEarly |-> signalledEarly,
     crashed |-> crashed]

Commit(s) ==
    /\ socketL' = s.socketL
    /\ connected' = s.connected
    /\ backL' = s.backL
    /\ backSub' = s.backSub
    /\ backSessCode' = s.backSessCode
    /\ wsArgs' = s.wsArgs
    /\ wsL' = s.wsL
    /\ wsSub' = s.wsSub
    /\ wsSessCode' = s.wsSessCode
    /\ workspace' = s.workspace
    /\ user' = s.user
    /\ bucketId' = s.bucketId
    /\ destroyed' = s.destroyed
    /\ auto' = s.auto
    /\ pending' = s.pending
    /\ buckets' = s.buckets
    /\ emitted' = s.emitted
    /\ backCalls' = s.backCalls
    /\ wsCalls' = s.wsCalls
    /\ ev' = s.ev
    /\ joinCount' = s.joinCount
    /\ signalled' = s.signalled
    /\ signalledEarly' = s.signalledEarly
    /\ crashed' = s.crashed

\* A step starts with empty per-step call logs and records its event.
Begin(s, e) == [s EXCEPT !.emitted = <<>>, !.backCalls = <<>>, !.wsCalls = <<>>, !.ev = e]

Emit(s, name, data) ==
    [s EXCEPT !.emitted = Append(@, [name |-> name, data |-> data])]
BackCall(s, c) == [s EXCEPT !.backCalls = Append(@, c)]
WsCall(s, c) == [s EXCEPT !.wsCalls = Append(@, c)]
Defer(s, call) == [s EXCEPT !.pending = @ (+) SetToBag({call})]
Throw(s) == [s EXCEPT !.crashed = TRUE]

\* History: a termination signal is being handled.
Signal(s) ==
    [s EXCEPT !.signalled = TRUE,
              !.signalledEarly = @ \/ s.auto.user.st = "pending" \/ s.auto.init.st = "pending"]

WsRef == [t |-> "object", ref |-> "workspace"]
NoWs == [t |-> "none"]


(***************************************************************************)
(* Listener discipline: listen() and unlisten().                           *)
(***************************************************************************)
NoListeners(events) == [e \in events |-> 0]
On(table, e) == [table EXCEPT ![e] = @ + 1]

unlisten(s) ==
    LET s1 == [s EXCEPT !.socketL = NoListeners(SockEvents),
                        !.backL = NoListeners(BackEvents),
                        !.backSub = FALSE]
        s2 == BackCall(BackCall(s1, [m |-> "removeAllListeners"]), [m |-> "unsubscribe"])
    IN  IF Falsy(s.workspace) THEN s2
        ELSE WsCall(WsCall([s2 EXCEPT !.wsL = NoListeners(WsEvents), !.wsSub = FALSE],
                           [m |-> "removeAllListeners"]), [m |-> "unsubscribe"])

\* The attaching half of listen(), after its call of unlisten().
attach(s) ==
    LET s1 == [s EXCEPT !.socketL = On(On(@, "*"), "disconnect"),
                        !.backL = On(On(@, "data"), "destroy-u")]
        s2 == IF Falsy(s.workspace) THEN s1
              ELSE WsCall([s1 EXCEPT !.wsL = On(On(On(On(On(@, "data"), "message"),
                                                   "sesscode"), "back"), "log"),
                                     !.wsSub = TRUE],
                          [m |-> "subscribe"])
    IN  BackCall([s2 EXCEPT !.backSub = TRUE], [m |-> "subscribe"])

\* listen() without its leading unlisten().
listenWithoutUnlisten(s) == attach(s)

listen(s) == attach(unlisten(s))

(***************************************************************************)
(* sendMessage and the teardown handlers.                                  *)
(***************************************************************************)
Newline == "\n"

sendMessage(s, message) ==
    Emit(Emit(s, "data", [t |-> "object", type |-> Str("stdout"),
                          data |-> Concat(message, Str(Newline))]),
         "alert", message)

\* onDestroyD that tells the workspace but leaves every listener attached.
onDestroyDKeepsListeners(s) ==
    Signal(IF Falsy(s.workspace) THEN s
           ELSE WsCall(s, [m |-> "destroyD", reason |-> Str("Client Disconnect")]))

onDestroyD(s) ==
    LET s1 == IF Falsy(s.workspace) THEN s
              ELSE WsCall(s, [m |-> "destroyD", reason |-> Str("Client Disconnect")])
    IN  unlisten(Signal(s1))

\* onDestroyU that leaves the back channel's session code in place.
onDestroyUKeepsSessCode(s, message) ==
    LET s1 == Emit(s, "destroy-u", message)
    IN  Signal(IF Falsy(s.workspace) THEN s1
               ELSE WsCall(s1, [m |-> "destroyU", reason |-> message]))

onDestroyU(s, message) ==
    LET s1 == Emit(s, "destroy-u", message)
        s2 == BackCall([s1 EXCEPT !.backSessCode = Null],
                       [m |-> "setSessCode", code |-> Null])
        s3 == IF Falsy(s.workspace) THEN s2
              ELSE WsCall(s2, [m |-> "destroyU", reason |-> message])
    IN  Signal(s3)

(***************************************************************************)
(* Session code, workspace-to-back forwarding, workspace data.             *)
(***************************************************************************)
\* setSessCode that tells the client but not the back channel.
setSessCodeClientOnly(s, sessCode) ==
    LET s2 == Emit(s, "sesscode", [t |-> "object", sessCode |-> sessCode])
    IN  IF Falsy(s.workspace) THEN s2 ELSE [s2 EXCEPT !.wsSessCode = sessCode]

setSessCode(s, sessCode) ==
    LET s1 == BackCall([s EXCEPT !.backSessCode = sessCode],
                       [m |-> "setSessCode", code |-> sessCode])
        s2 == Emit(s1, "sesscode", [t |-> "object", sessCode |-> sessCode])
    IN  IF Falsy(s.workspace) THEN s2 ELSE [s2 EXCEPT !.wsSessCode = sessCode]

onDataWtoU(s, name, value) == BackCall(s, [m |-> "dataD", name |-> name, data |-> value])

onDataW(s, name, data) == Emit(s, name, data)

\* onLogW only writes to the console.
onLogW(s, data) == s


(***************************************************************************)
(* Startup side loads (forked from init_session).                          *)
(***************************************************************************)
RECURSIVE FindEach(_, _, _)
\* programs.forEach: one User.find per program of the list, from index i on.
FindEach(s, programs, i) ==
    IF i > Len(programs) THEN s
    ELSE FindEach(Defer(s, [op |-> "User.find", program |-> programs[i]]), programs, i + 1)

loadInstructor(s) ==
    IF Falsy(s.user) \/ Falsy(Get(s.user, "instructor"))
       \/ Len(Get(s.user, "instructor").v) = 0
    THEN s
    ELSE FindEach(s, Get(s.user, "instructor").v, 1)

\* The callback of one User.find of loadInstructor.
loadInstructorCb(s, call) ==
    Emit(s, "instructor", [t |-> "object", program |-> call.program])

\* The callback of the Bucket.find of loadUserBuckets.
loadUserBucketsCb(s, call, err) ==
    IF err THEN s
    ELSE Emit(s, "all-buckets",
              [t |-> "object",
               buckets |-> {b \in BucketIds : s.buckets[b] = call.user_id.v[1]}])

loadUserBuckets(s) ==
    IF Falsy(s.user) THEN s
    ELSE Defer(s, [op |-> "Bucket.find", user_id |-> Get(s.user, "_id")])

\* touchLastActivity's callback only logs; the timestamp is not part of the model.
touchUser(s) == s

loadBucket(s, skipCreate) ==
    IF Falsy(s.bucketId) THEN s
    ELSE Defer(s, [op |-> "loadBucket", bucket_id |-> s.bucketId, skipCreate |-> skipCreate])

BeginOctave == [m |-> "beginOctaveRequest"]

\* The loadBucket callback whose not-found branch keeps the workspace.
loadBucketCbKeepsWorkspace(s, call, r) ==
    IF r = "err"
    THEN sendMessage(s, Str("Encountered error while initializing bucket."))
    ELSE IF r = "none"
    THEN LET s1 == sendMessage(s, Concat(Str("Unable to find bucket: "), s.bucketId))
         IN  Signal(Emit(s1, "destroy-u", Str("Unknown Bucket")))
    ELSE LET s1 == Emit(s, "bucket-info",
                        [t |-> "object", bucket_id |-> call.bucket_id,
                         user_id |-> Str(s.buckets[call.bucket_id.v[1]])])
         IN  IF ~Falsy(call.skipCreate) THEN s1
             ELSE IF Falsy(s1.workspace) THEN Throw(s1)
             ELSE WsCall(s1, BeginOctave)

\* The callback of the Bucket.findOne of loadBucket; r is "err", "none" or "found".
loadBucketCb(s, call, r) ==
    IF r = "err"
    THEN sendMessage(s, Str("Encountered error while initializing bucket."))
    ELSE IF r = "none"
    THEN LET s1 == sendMessage(s, Concat(Str("Unable to find bucket: "), s.bucketId))
             s2 == Emit(s1, "destroy-u", Str("Unknown Bucket"))
         IN  Signal([s2 EXCEPT !.workspace = Null])
    ELSE LET s1 == Emit(s, "bucket-info",
                        [t |-> "object", bucket_id |-> call.bucket_id,
                         user_id |-> Str(s.buckets[call.bucket_id.v[1]])])
         IN  IF ~Falsy(call.skipCreate) THEN s1
             ELSE IF Falsy(s1.workspace) THEN Throw(s1)
             ELSE WsCall(s1, BeginOctave)

(***************************************************************************)
(* Reserved control names: the local handlers.                             *)
(***************************************************************************)
onSetPassword(s, obj) ==
    IF Falsy(obj) \/ Falsy(s.user) THEN s
    ELSE Defer(s, [op |-> "setPassword"])

onSetPasswordCb(s, err) ==
    IF err THEN s ELSE sendMessage(s, Str("Your password has been changed."))

onBucketCreated(s, obj) ==
    IF Falsy(obj) \/ Falsy(Get(obj, "bucket_id")) \/ Falsy(s.user) THEN s
    ELSE Defer(s, [op |-> "bucket.save", bucket_id |-> Get(obj, "bucket_id"),
                   user_id |-> Get(s.user, "_id")])

onBucketCreatedCb(s, call, err) ==
    IF err THEN s
    ELSE Emit([s EXCEPT !.buckets[call.bucket_id.v[1]] = call.user_id.v[1]],
              "bucket-created",
              [t |-> "object",
               bucket |-> [t |-> "object", bucket_id |-> call.bucket_id,
                           user_id |-> call.user_id]])

onDeleteBucket(s, obj) ==
    IF Falsy(obj) \/ Falsy(Get(obj, "bucket_id")) \/ Falsy(s.user) THEN s
    ELSE Defer(s, [op |-> "deleteBucket.findOne", bucket_id |-> Get(obj, "bucket_id")])

\* user._id.equals(bucket.user_id)
IdEquals(id, owner) == id.v = <<owner>>

\* The findOne callback without its ownership test.
onDeleteBucketFoundAnyOwner(s, call, r) ==
    IF r = "err"
    THEN sendMessage(s, Str("Encountered error while finding bucket."))
    ELSE IF r = "none"
    THEN sendMessage(s, Str("Unable to find bucket; did you already delete it?"))
    ELSE Defer(s, [op |-> "bucket.remove", bucket_id |-> call.bucket_id])

\* The callback of the Bucket.findOne of onDeleteBucket; r is "err", "none" or "found".
onDeleteBucketFound(s, call, r) ==
    IF r = "err"
    THEN sendMessage(s, Str("Encountered error while finding bucket."))
    ELSE IF r = "none"
    THEN sendMessage(s, Str("Unable to find bucket; did you already delete it?"))
    ELSE IF ~IdEquals(Get(s.user, "_id"), s.buckets[call.bucket_id.v[1]])
    THEN sendMessage(s, Str("You are not the owner of that bucket"))
    ELSE Defer(s, [op |-> "bucket.remove", bucket_id |-> call.bucket_id])

\* The callback of bucket.remove.
onDeleteBucketRemoved(s, call, err) ==
    IF err
    THEN sendMessage(s, Str("Encountered error while removing bucket."))
    ELSE Emit([s EXCEPT !.buckets[call.bucket_id.v[1]] = NoOwner],
              "bucket-deleted", [t |-> "object", bucket_id |-> call.bucket_id])

onOoReconnect(s) ==
    IF ~Falsy(s.workspace) THEN WsCall(s, BeginOctave)
    ELSE Emit(s, "destroy-u", Str("Invalid Session"))

onEnroll(s, obj) ==
    IF Falsy(s.user) \/ Falsy(obj) \/ Falsy(Get(obj, "program")) THEN s
    ELSE Defer([s EXCEPT !.user.program = Get(obj, "program")], [op |-> "enroll.save"])

onEnrollCb(s, err) ==
    IF err THEN s ELSE sendMessage(s, Str("Successfully enrolled"))

onUpdateStudents(s, obj) ==
    IF Falsy(obj) THEN s
    ELSE sendMessage(s, Str("The update_students command has been replaced."))

\* parseInt of a number is the number; of anything else modelled here, NaN.
NaN == [t |-> "NaN"]
ParseInt(x) == IF x.t = "number" THEN x ELSE NaN

onPing(s, obj) ==
    IF Falsy(obj) THEN s
    ELSE Emit(s, "oo.pong", [t |-> "object", startTime |-> ParseInt(Get(obj, "startTime"))])

onToggleSharing(s, obj) ==
    IF Falsy(s.user) \/ Falsy(obj) THEN s
    ELSE LET enabled == Get(obj, "enabled")
             program == Get(s.user, "program")
         IN  IF Falsy(enabled) /\ ~Falsy(program) /\ program # Str("default")
             THEN sendMessage(s, Str("You must unenroll before disabling sharing."))
             ELSE IF ~Falsy(enabled)
             THEN Defer(s, [op |-> "createShareKey"])
             ELSE LET s1 == IF Falsy(s.workspace) THEN s
                            ELSE WsCall(s, [m |-> "destroyD",
                                            reason |-> Str("Sharing Disabled")])
                  IN  Defer(Signal(s1), [op |-> "removeShareKey"])

\* The callback of createShareKey and of removeShareKey.
onToggleSharingCb(s) == Emit(s, "reload", [t |-> "object"])

Includes(list, x) == \E i \in 1..Len(list.v) : list.v[i] = x
List(seq) == [t |-> "array", v |-> seq]

onUnenrollStudent(s, obj) ==
    IF Falsy(obj) \/ Falsy(Get(obj, "userId")) THEN s
    ELSE Defer(s, [op |-> "unenroll.findById", userId |-> Get(obj, "userId")])

\* The callback of the User.findById of onUnenrollStudent; student is the profile found.
onUnenrollStudentFound(s, err, student) ==
    IF err THEN s
    ELSE IF Falsy(s.user) \/ Falsy(student) \/ Get(s.user, "instructor").t # "array"
    THEN Throw(s)
    ELSE IF ~Includes(Get(s.user, "instructor"), Get(student, "program")) THEN s
    ELSE Defer(s, [op |-> "student.save", what |-> "unenrolled"])

onReenrollStudent(s, obj) ==
    IF Falsy(obj) \/ Falsy(Get(obj, "userId")) \/ Falsy(Get(obj, "program")) THEN s
    ELSE IF Falsy(s.user) \/ Get(s.user, "instructor").t # "array" THEN Throw(s)
    ELSE IF ~Includes(Get(s.user, "instructor"), Get(obj, "program"))
    THEN sendMessage(s, Concat(Str("Student not re-enrolled: Cannot use the course code "),
                               Get(obj, "program")))
    ELSE Defer(s, [op |-> "reenroll.findById", userId |-> Get(obj, "userId")])

\* The callback of the User.findById of onReenrollStudent.
onReenrollStudentFound(s, err, student) ==
    IF err THEN s
    ELSE IF Falsy(student) THEN Throw(s)
    ELSE IF ~Includes(Get(s.user, "instructor"), Get(student, "program")) THEN s
    ELSE Defer(s, [op |-> "student.save", what |-> "re-enrolled"])

\* The callback of student.save in both of the above.
onStudentSaved(s, call, err) ==
    IF err THEN s
    ELSE sendMessage(s, Concat(Str("Student successfully "), Str(call.what)))


(***************************************************************************)
(* Routing: onDataD and onDataU.                                           *)
(***************************************************************************)
\* onDataD whose prefix case falls through to the back server.
onDataDPrefixFallsThrough(s, obj) ==
    LET name == obj.name
        data == JsOr(obj.data, Null)
    IN  IF name \in Reserved THEN s
        ELSE LET s1 == IF ~Falsy(s.workspace)
                          /\ (Substr03(name) \in {PrefixOt, PrefixWs}
                              \/ name \in {N_data, N_save})
                       THEN WsCall(s, [m |-> "dataD", name |-> name, data |-> data])
                       ELSE s
             IN  BackCall(s1, [m |-> "dataD", name |-> name, data |-> data])

\* onDataD that hands data and save to the workspace instead of forking them.
onDataDForkReplacesForward(s, obj) ==
    LET name == obj.name
        data == JsOr(obj.data, Null)
    IN  IF name = N_init THEN s
        ELSE IF name = N_enroll THEN onEnroll(s, data)
        ELSE IF name = N_update_students THEN onUpdateStudents(s, data)
        ELSE IF name = N_unenroll_student THEN onUnenrollStudent(s, data)
        ELSE IF name = N_reenroll_student THEN onReenrollStudent(s, data)
        ELSE IF name = N_ping THEN onPing(s, data)
        ELSE IF name = N_toggle_sharing THEN onToggleSharing(s, data)
        ELSE IF name = N_reconnect THEN onOoReconnect(s)
        ELSE IF name = N_set_password THEN onSetPassword(s, data)
        ELSE IF name = N_delete_bucket THEN onDeleteBucket(s, data)
        ELSE IF Substr03(name) \in {PrefixOt, PrefixWs}
        THEN IF Falsy(s.workspace) THEN s
             ELSE WsCall(s, [m |-> "dataD", name |-> name, data |-> data])
        ELSE IF name \in {N_data, N_save} /\ ~Falsy(s.workspace)
        THEN WsCall(s, [m |-> "dataD", name |-> name, data |-> data])
        ELSE BackCall(s, [m |-> "dataD", name |-> name, data |-> data])

\* obj.data[0] || "" and obj.data[1] || null.  A name is a string, and the
\* empty string is the only falsy one, so || "" leaves every name as it is.
onDataD(s, obj) ==
    LET name == obj.name
        data == JsOr(obj.data, Null)
    IN  IF name = N_init THEN s
        ELSE IF name = N_enroll THEN onEnroll(s, data)
        ELSE IF name = N_update_students THEN onUpdateStudents(s, data)
        ELSE IF name = N_unenroll_student THEN onUnenrollStudent(s, data)
        ELSE IF name = N_reenroll_student THEN onReenrollStudent(s, data)
        ELSE IF name = N_ping THEN onPing(s, data)
        ELSE IF name = N_toggle_sharing THEN onToggleSharing(s, data)
        ELSE IF name = N_reconnect THEN onOoReconnect(s)
        ELSE IF name = N_set_password THEN onSetPassword(s, data)
        ELSE IF name = N_delete_bucket THEN onDeleteBucket(s, data)
        ELSE IF Substr03(name) \in {PrefixOt, PrefixWs}
        THEN IF Falsy(s.workspace) THEN s
             ELSE WsCall(s, [m |-> "dataD", name |-> name, data |-> data])
        ELSE LET s1 == IF name \in {N_data, N_save} /\ ~Falsy(s.workspace)
                       THEN WsCall(s, [m |-> "dataD", name |-> name, data |-> data])
                       ELSE s
             IN  BackCall(s1, [m |-> "dataD", name |-> name, data |-> data])

\* onDataU whose bucket-repo-created case does not return.
onDataURelaysAll(s, name, data) ==
    LET s1 == IF Falsy(s.workspace) THEN s
              ELSE WsCall(s, [m |-> "dataU", name |-> name, data |-> data])
    IN  Emit(IF name = "bucket-repo-created" THEN onBucketCreated(s1, data) ELSE s1,
             name, data)

onDataU(s, name, data) ==
    LET s1 == IF Falsy(s.workspace) THEN s
              ELSE WsCall(s, [m |-> "dataU", name |-> name, data |-> data])
    IN  IF name = "bucket-repo-created" THEN onBucketCreated(s1, data)
        ELSE Emit(s1, name, data)

(***************************************************************************)
(* The startup join: Async.auto with the tasks user and init and the       *)
(* dependent task init_session.                                            *)
(***************************************************************************)
SharedWorkspace(kind, info) ==
    [t |-> "SharedWorkspace", kind |-> kind, info |-> info]
NormalWorkspace(sessCode, usr, bucket) ==
    [t |-> "NormalWorkspace", sessCode |-> sessCode, user |-> usr, bucketId |-> bucket]

\* The switch without the three "if (!info) return" lines.
selectWorkspaceInfoUnchecked(action, info, oldSessCode, usr) ==
    IF action = Str("workspace") THEN SharedWorkspace("default", info)
    ELSE IF action = Str("student") THEN SharedWorkspace("student", info)
    ELSE IF action = Str("bucket") THEN NormalWorkspace(oldSessCode, usr, info)
    ELSE IF ~Falsy(JsAnd(usr, Get(usr, "share_key")))
    THEN SharedWorkspace("host", usr)
    ELSE NormalWorkspace(oldSessCode, usr, Null)

\* init_session's switch (action): the workspace constructed, or NoWs when the
\* case returns because info is missing.
selectWorkspace(action, info, oldSessCode, usr) ==
    IF action = Str("workspace")
    THEN IF Falsy(info) THEN NoWs ELSE SharedWorkspace("default", info)
    ELSE IF action = Str("student")
    THEN IF Falsy(info) THEN NoWs ELSE SharedWorkspace("student", info)
    ELSE IF action = Str("bucket")
    THEN IF Falsy(info) THEN NoWs ELSE NormalWorkspace(oldSessCode, usr, info)
    ELSE IF ~Falsy(JsAnd(usr, Get(usr, "share_key")))
    THEN SharedWorkspace("host", usr)
    ELSE NormalWorkspace(oldSessCode, usr, Null)

\* The body of init_session, with the results of the tasks user and init.
init_session(s, usr, init) ==
    IF s.destroyed THEN s
    ELSE LET s1 == touchUser(loadUserBuckets(loadInstructor([s EXCEPT !.user = usr])))
             action == JsAnd(init, Get(init, "action"))
             info == JsAnd(init, Get(init, "info"))
             sessCode0 == JsAnd(init, Get(init, "sessCode"))
             skipCreate == JsAnd(init, Get(init, "skipCreate"))
             oldSessCode == IF action = Str("session") /\ Falsy(sessCode0)
                            THEN info ELSE sessCode0
             ws == selectWorkspace(action, info, oldSessCode, usr)
         IN  IF ws = NoWs THEN s1
             ELSE LET s2 == listen([s1 EXCEPT !.workspace = WsRef, !.wsArgs = ws,
                                              !.wsL = NoListeners(WsEvents),
                                              !.wsSub = FALSE, !.wsSessCode = Undef])
                  IN  IF action = Str("bucket")
                      THEN loadBucket([s2 EXCEPT !.bucketId = info], skipCreate)
                      ELSE IF Falsy(skipCreate) THEN WsCall(s2, BeginOctave)
                      ELSE s2

\* ready() that looks at one requirement only.
autoReadyInitOnly(a) == a.init.st = "ok" /\ ~a.started

\* Async.auto's ready(): init_session may run when both of its requirements have
\* a result and it has not been started.
autoReady(a) == a.user.st = "ok" /\ a.init.st = "ok" /\ ~a.started

\* A task's callback: next(err, result).
taskCallback(s, task, err, result) ==
    IF err THEN [s EXCEPT !.auto[task].st = "err"]
    ELSE [s EXCEPT !.auto[task] = [st |-> "ok", res |-> result]]

\* Async.auto invoking the dependent task.
runInitSession(s) ==
    init_session([s EXCEPT !.auto.started = TRUE, !.joinCount = @ + 1],
                 s.auto.user.res, s.auto.init.res)


(***************************************************************************)
(* Inputs: the profiles the store can return, the session cookie, and the  *)
(* messages a client, the back server and the workspace can send.          *)
(***************************************************************************)
Obj == [t |-> "object"]
Profile(id, share_key, program, instructor) ==
    [t |-> "object", _id |-> Str(id), share_key |-> share_key,
     program |-> program, instructor |-> List(instructor)]

Profiles ==
    {Profile("A", Undef, Str("default"), <<>>),
     Profile("A", Str("key"), Str("course"), <<Str("course")>>),
     Profile("B", Undef, Str("course"), <<>>)}

InitRequests ==
    {Undef,
     [t |-> "object", action |-> Str("session")],
     [t |-> "object", action |-> Str("session"), info |-> Str("s0")],
     [t |-> "object", action |-> Str("session"), sessCode |-> Str("s0"),
      skipCreate |-> Bool(TRUE)],
     [t |-> "object", action |-> Str("workspace"), info |-> Str("w1")],
     [t |-> "object", action |-> Str("student")],
     [t |-> "object", action |-> Str("bucket"), info |-> Str("b1")],
     [t |-> "object", action |-> Str("bucket"), info |-> Str("b2")]}

PayloadsOf(name) ==
    IF name = N_delete_bucket
    THEN {Obj, [t |-> "object", bucket_id |-> Str("b1")]}
    ELSE IF name = N_toggle_sharing
    THEN {[t |-> "object", enabled |-> Bool(TRUE)],
          [t |-> "object", enabled |-> Bool(FALSE)]}
    ELSE IF name = N_ping THEN {[t |-> "object", startTime |-> Num(5)]}
    ELSE IF name = N_enroll THEN {[t |-> "object", program |-> Str("course")]}
    ELSE IF name = N_unenroll_student THEN {[t |-> "object", userId |-> Str("B")]}
    ELSE IF name = N_reenroll_student
    THEN {[t |-> "object", userId |-> Str("B"), program |-> Str("course")]}
    ELSE IF name = N_set_password THEN {[t |-> "object", new_pwd |-> Str("p")]}
    ELSE IF name = N_update_students THEN {Obj}
    ELSE IF name = N_reconnect THEN {Undef}
    ELSE IF name = N_other THEN {Num(0), Str("x")}
    ELSE {Str("x")}

\* The inputs of the routing specification: every startup request, and the
\* client names that are routed or that act on the workspace.
RoutingInputs ==
    [cookies |-> {Undef, Str("A")},
     inits |-> InitRequests,
     names |-> {N_init, N_reconnect, N_toggle_sharing, N_ot_insert, N_ws_rename,
                N_data, N_other, N_ot},
     backNames |-> {"data"},
     backPayloads |-> {Str("x")},
     keyed |-> FALSE]

\* The same inputs, with a back channel that hears the back server only while a
\* session code is set on it.
KeyedInputs == [RoutingInputs EXCEPT !.keyed = TRUE]

\* The inputs of the control specification: every client name, a plain session.
ControlInputs ==
    [cookies |-> {Undef, Str("A"), Str("B")},
     inits |-> {[t |-> "object", action |-> Str("session")]},
     names |-> Reserved \cup {N_ot_insert, N_data, N_save, N_other},
     backNames |-> {"data", "bucket-repo-created"},
     backPayloads |-> {Undef, [t |-> "object", bucket_id |-> Str("b2")]},
     keyed |-> FALSE]

\* The inputs of the bucket specification: the names that reach the bucket store,
\* for the owner, another user and an anonymous client.
BucketInputs ==
    [cookies |-> {Undef, Str("A"), Str("B")},
     inits |-> {[t |-> "object", action |-> Str("session")]},
     names |-> {N_init, N_delete_bucket, N_data},
     backNames |-> {"data", "bucket-repo-created"},
     backPayloads |-> {Undef, [t |-> "object", bucket_id |-> Str("b2")]},
     keyed |-> FALSE]

\* The inputs of the dispatch specification: every reserved name, both prefixes,
\* the two forked names and names that are none of these.
DispatchInputs ==
    [cookies |-> {Undef, Str("A")},
     inits |-> {[t |-> "object", action |-> Str("session")]},
     names |-> Reserved \cup {N_ot_insert, N_ws_rename, N_data, N_save, N_other, N_ot},
     backNames |-> {"data"},
     backPayloads |-> {Str("x")},
     keyed |-> FALSE]

\* The startup requests of the join specification: every action with and without
\* info, an action the switch does not name, and a request with both code and info.
JoinRequests ==
    InitRequests \cup
    {[t |-> "object", action |-> Str("workspace")],
     [t |-> "object", action |-> Str("student"), info |-> Str("u1")],
     [t |-> "object", action |-> Str("bucket")],
     [t |-> "object", action |-> Str("bucket"), info |-> Str("b1"),
      sessCode |-> Str("s0")],
     [t |-> "object", action |-> Str("resume"), info |-> Str("s0")],
     [t |-> "object", action |-> Str("session"), info |-> Str("s1"),
      sessCode |-> Str("s0")]}

JoinInputs ==
    [cookies |-> {Undef, Str("A")},
     inits |-> JoinRequests,
     names |-> {N_init, N_reconnect},
     backNames |-> {"data"},
     backPayloads |-> {Str("x")},
     keyed |-> FALSE]

DestroyReasons == {Str("Octave Exited")}
SessCodes == {Str("abc123"), Str("def456")}
WsDataName == "ot.doc"
WsBackName == <<"c", "m", "d">>

(***************************************************************************)
(* The state after construction.                                           *)
(***************************************************************************)
Blank ==
    [socketL |-> NoListeners(SockEvents), connected |-> TRUE,
     backL |-> NoListeners(BackEvents), backSub |-> FALSE, backSessCode |-> Null,
     wsArgs |-> NoWs, wsL |-> NoListeners(WsEvents), wsSub |-> FALSE,
     wsSessCode |-> Undef, workspace |-> Undef, user |-> Null, bucketId |-> Null,
     destroyed |-> FALSE,
     auto |-> [user |-> [st |-> "pending", res |-> Undef],
               init |-> [st |-> "pending", res |-> Undef], started |-> FALSE],
     pending |-> EmptyBag, buckets |-> [b \in BucketIds |-> IF b = "b1" THEN "A" ELSE NoOwner],
     emitted |-> <<>>, backCalls |-> <<>>, wsCalls |-> <<>>,
     ev |-> [type |-> "connection"], joinCount |-> 0, signalled |-> FALSE,
     signalledEarly |-> FALSE,
     crashed |-> FALSE]

\* new SocketHandler(socket), for a session cookie naming userId
\* (sess && sess.passport && sess.passport.user).
constructor(userId) ==
    LET s1 == listen(Emit(Blank, "init", Undef))
        s2 == IF ~Falsy(userId) THEN Defer(s1, [op |-> "User.findById", userId |-> userId])
              ELSE taskCallback(s1, "user", FALSE, Null)
    IN  [s2 EXCEPT !.socketL = On(@, "init")]

InitFrom(s) ==
    /\ socketL = s.socketL
    /\ connected = s.connected
    /\ backL = s.backL
    /\ backSub = s.backSub
    /\ backSessCode = s.backSessCode
    /\ wsArgs = s.wsArgs
    /\ wsL = s.wsL
    /\ wsSub = s.wsSub
    /\ wsSessCode = s.wsSessCode
    /\ workspace = s.workspace
    /\ user = s.user
    /\ bucketId = s.bucketId
    /\ destroyed = s.destroyed
    /\ auto = s.auto
    /\ pending = s.pending
    /\ buckets = s.buckets
    /\ emitted = s.emitted
    /\ backCalls = s.backCalls
    /\ wsCalls = s.wsCalls
    /\ ev = s.ev
    /\ joinCount = s.joinCount
    /\ signalled = s.signalled
    /\ signalledEarly = s.signalledEarly
    /\ crashed = s.crashed

(***************************************************************************)
(* Actions: one per event the handler can be entered by.                   *)
(***************************************************************************)
\* The calls Async.auto's tasks and init_session issue: once per session each.
StartupOps == {"User.findById", "User.find", "Bucket.find", "loadBucket"}

InFlight(bag) ==
    BagCardinality([c \in {d \in BagToSet(bag) : d.op \notin StartupOps} |-> bag[c]])

\* Commit the outcome of a step, within the bound on calls in flight.
Step(s) == InFlight(s.pending) <= MaxPending /\ Commit(s)

\* The state with the call c taken out of the calls in flight.
Take(c) == [State EXCEPT !.pending = @ (-) SetToBag({c})]

Calls(op) == {c \in BagToSet(pending) : c.op = op}

\* The bucket store's answer to findOne at this moment.
FindOne(id) == IF buckets[id.v[1]] = NoOwner THEN "none" ELSE "found"

\* What User.findById(id) can hand to its callback: a store error, null when no
\* such user exists, or a profile with that id.
StoreError == [t |-> "error"]
FindById(id) == {StoreError, Null} \cup {p \in Profiles : p._id = id}

\* User.findById of the startup task user calls next(err, user).
UserLookupDone ==
    /\ ~crashed
    /\ \E c \in Calls("User.findById") :
         \E r \in FindById(c.userId) :
            Step(taskCallback(Begin(Take(c), [type |-> "User.findById", found |-> r]),
                              "user", r = StoreError, IF r = StoreError THEN Null ELSE r))

\* Async.auto's taskComplete finds init_session ready and runs it.
AutoTaskComplete ==
    /\ ~crashed
    /\ autoReady(auto)
    /\ joinCount < MaxJoin
    /\ Step(runInitSession(Begin(State, [type |-> "init_session"])))

\* The client sends (name, data): the once("init") listener and the "*" listener.
\* Once the init task has its result an init message carries no payload here:
\* onDataD ignores it.
ClientMessage(in) ==
    /\ ~crashed
    /\ connected
    /\ \E name \in in.names :
         \E data \in IF name # N_init THEN PayloadsOf(name)
                     ELSE IF socketL["init"] > 0 THEN in.inits ELSE {Undef} :
            LET s0 == Begin(State, [type |-> "client", name |-> name, data |-> data])
                s1 == IF name = N_init /\ s0.socketL["init"] > 0
                      THEN taskCallback([s0 EXCEPT !.socketL["init"] = @ - 1],
                                        "init", FALSE, data)
                      ELSE s0
                s2 == IF s1.socketL["*"] > 0
                      THEN onDataD(s1, [name |-> name, data |-> data])
                      ELSE s1
            IN  Step(s2)

ClientDisconnect ==
    /\ ~crashed
    /\ connected
    /\ LET s0 == [Begin(State, [type |-> "disconnect"]) EXCEPT !.connected = FALSE]
       IN  Step(IF s0.socketL["disconnect"] > 0 THEN onDestroyD(s0) ELSE s0)

BackendData(in) ==
    /\ ~crashed
    /\ backL["data"] > 0
    /\ in.keyed => backSessCode # Null
    /\ \E name \in in.backNames : \E data \in in.backPayloads :
         Step(onDataU(Begin(State, [type |-> "back.data", name |-> name, data |-> data]),
                      name, data))

BackendDestroy(in) ==
    /\ ~crashed
    /\ backL["destroy-u"] > 0
    /\ in.keyed => backSessCode # Null
    /\ \E message \in DestroyReasons :
         Step(onDestroyU(Begin(State, [type |-> "back.destroy-u", message |-> message]),
                         message))

WorkspaceSessCode ==
    /\ ~crashed
    /\ wsArgs # NoWs
    /\ wsL["sesscode"] > 0
    /\ \E code \in SessCodes :
         Step(setSessCode(Begin(State, [type |-> "ws.sesscode", code |-> code]), code))

WorkspaceEmit ==
    /\ ~crashed
    /\ wsArgs # NoWs
    /\ \E e \in WsEvents \ {"sesscode"} :
         /\ wsL[e] > 0
         /\ LET s0 == Begin(State, [type |-> "ws." \o e])
            IN  Step(CASE e = "data" -> onDataW(s0, WsDataName, Str("x"))
                       [] e = "message" -> sendMessage(s0, Str("notice"))
                       [] e = "back" -> onDataWtoU(s0, WsBackName, Str("x"))
                       [] e = "log" -> onLogW(s0, Str("x")))

LoadBucketDone ==
    /\ ~crashed
    /\ \E c \in Calls("loadBucket") : \E r \in {"err", FindOne(c.bucket_id)} :
         Step(loadBucketCb(Begin(Take(c), [type |-> "loadBucket", result |-> r]), c, r))

LoadInstructorDone ==
    /\ ~crashed
    /\ \E c \in Calls("User.find") :
         Step(loadInstructorCb(Begin(Take(c), [type |-> "User.find"]), c))

LoadUserBucketsDone ==
    /\ ~crashed
    /\ \E c \in Calls("Bucket.find") : \E err \in BOOLEAN :
         Step(loadUserBucketsCb(Begin(Take(c), [type |-> "Bucket.find", err |-> err]),
                                c, err))

DeleteBucketFound ==
    /\ ~crashed
    /\ \E c \in Calls("deleteBucket.findOne") : \E r \in {"err", FindOne(c.bucket_id)} :
         Step(onDeleteBucketFound(
                 Begin(Take(c), [type |-> "deleteBucket.findOne", result |-> r,
                                 bucket_id |-> c.bucket_id]), c, r))

DeleteBucketRemoved ==
    /\ ~crashed
    /\ \E c \in Calls("bucket.remove") : \E err \in BOOLEAN :
         Step(onDeleteBucketRemoved(
                 Begin(Take(c), [type |-> "bucket.remove", err |-> err,
                                 bucket_id |-> c.bucket_id]), c, err))

BucketSaved ==
    /\ ~crashed
    /\ \E c \in Calls("bucket.save") : \E err \in BOOLEAN :
         Step(onBucketCreatedCb(Begin(Take(c), [type |-> "bucket.save", err |-> err]),
                                c, err))

ToggleSharingDone ==
    /\ ~crashed
    /\ \E c \in Calls("createShareKey") \cup Calls("removeShareKey") :
         Step(onToggleSharingCb(Begin(Take(c), [type |-> c.op])))

EnrollSaved ==
    /\ ~crashed
    /\ \E c \in Calls("enroll.save") : \E err \in BOOLEAN :
         Step(onEnrollCb(Begin(Take(c), [type |-> "enroll.save", err |-> err]), err))

SetPasswordDone ==
    /\ ~crashed
    /\ \E c \in Calls("setPassword") : \E err \in BOOLEAN :
         Step(onSetPasswordCb(Begin(Take(c), [type |-> "setPassword", err |-> err]), err))

StudentFound ==
    /\ ~crashed
    /\ \E c \in Calls("unenroll.findById") \cup Calls("reenroll.findById") :
         \E r \in FindById(c.userId) :
            LET s0 == Begin(Take(c), [type |-> c.op, found |-> r])
                student == IF r = StoreError THEN Null ELSE r
            IN  Step(IF c.op = "unenroll.findById"
                     THEN onUnenrollStudentFound(s0, r = StoreError, student)
                     ELSE onReenrollStudentFound(s0, r = StoreError, student))

StudentSaved ==
    /\ ~crashed
    /\ \E c \in Calls("student.save") : \E err \in BOOLEAN :
         Step(onStudentSaved(Begin(Take(c), [type |-> "student.save", err |-> err]),
                             c, err))

(***************************************************************************)
(* Specifications.  Spec: startup, routing and teardown under every        *)
(* startup request, with a back server that may speak at any time.         *)
(* SpecKeyed: the same, with a back server that speaks only while the back *)
(* channel has a session code.  SpecControl: the reserved control names    *)
(* and the bucket operations in a plain session.  SpecBuckets: the bucket  *)
(* operations alone, for the owner, another user and an anonymous client.  *)
(* SpecDispatch: every client name, without back server and workspace      *)
(* events.  SpecJoin: the startup join under every shape of startup        *)
(* request.                                                                *)
(***************************************************************************)
Init == \E userId \in RoutingInputs.cookies : InitFrom(constructor(userId))

Next ==
    \/ UserLookupDone
    \/ AutoTaskComplete
    \/ ClientMessage(RoutingInputs)
    \/ ClientDisconnect
    \/ BackendData(RoutingInputs)
    \/ BackendDestroy(RoutingInputs)
    \/ WorkspaceSessCode
    \/ WorkspaceEmit
    \/ LoadBucketDone
    \/ LoadInstructorDone
    \/ LoadUserBucketsDone
    \/ ToggleSharingDone

Spec == Init /\ [][Next]_vars

NextKeyed ==
    \/ UserLookupDone
    \/ AutoTaskComplete
    \/ ClientMessage(KeyedInputs)
    \/ ClientDisconnect
    \/ BackendData(KeyedInputs)
    \/ BackendDestroy(KeyedInputs)
    \/ WorkspaceSessCode
    \/ WorkspaceEmit
    \/ LoadBucketDone
    \/ LoadInstructorDone
    \/ LoadUserBucketsDone
    \/ ToggleSharingDone

SpecKeyed == Init /\ [][NextKeyed]_vars

InitControl == \E userId \in ControlInputs.cookies : InitFrom(constructor(userId))

NextControl ==
    \/ UserLookupDone
    \/ AutoTaskComplete
    \/ ClientMessage(ControlInputs)
    \/ ClientDisconnect
    \/ BackendData(ControlInputs)
    \/ BackendDestroy(ControlInputs)
    \/ WorkspaceSessCode
    \/ WorkspaceEmit
    \/ LoadInstructorDone
    \/ LoadUserBucketsDone
    \/ DeleteBucketFound
    \/ DeleteBucketRemoved
    \/ BucketSaved
    \/ ToggleSharingDone
    \/ EnrollSaved
    \/ SetPasswordDone
    \/ StudentFound
    \/ StudentSaved

SpecControl == InitControl /\ [][NextControl]_vars


InitBuckets == \E userId \in BucketInputs.cookies : InitFrom(constructor(userId))

NextBuckets ==
    \/ UserLookupDone
    \/ AutoTaskComplete
    \/ ClientMessage(BucketInputs)
    \/ ClientDisconnect
    \/ BackendData(BucketInputs)
    \/ BackendDestroy(BucketInputs)
    \/ LoadInstructorDone
    \/ LoadUserBucketsDone
    \/ DeleteBucketFound
    \/ DeleteBucketRemoved
    \/ BucketSaved

SpecBuckets == InitBuckets /\ [][NextBuckets]_vars

InitDispatch == \E userId \in DispatchInputs.cookies : InitFrom(constructor(userId))

NextDispatch ==
    \/ UserLookupDone
    \/ AutoTaskComplete
    \/ ClientMessage(DispatchInputs)
    \/ ClientDisconnect
    \/ LoadInstructorDone
    \/ LoadUserBucketsDone
    \/ DeleteBucketFound
    \/ DeleteBucketRemoved
    \/ ToggleSharingDone
    \/ EnrollSaved
    \/ SetPasswordDone
    \/ StudentFound
    \/ StudentSaved

SpecDispatch == InitDispatch /\ [][NextDispatch]_vars

InitJoin == \E userId \in JoinInputs.cookies : InitFrom(constructor(userId))

NextJoin ==
    \/ UserLookupDone
    \/ AutoTaskComplete
    \/ ClientMessage(JoinInputs)
    \/ ClientDisconnect
    \/ WorkspaceSessCode
    \/ LoadBucketDone
    \/ LoadInstructorDone
    \/ LoadUserBucketsDone

SpecJoin == InitJoin /\ [][NextJoin]_vars


(***************************************************************************)
(* Properties.                                                             *)
(***************************************************************************)
BothResolved == auto.user.st = "ok" /\ auto.init.st = "ok"

\* C1: init_session is invoked at most once, only after both the profile lookup and
\* the client's init message have produced a result, and when both have (no
\* error, session not destroyed) it has been invoked or its invocation is due.
C1_JoinOnceAfterBoth ==
    /\ joinCount <= 1
    /\ joinCount >= 1 => BothResolved
    /\ (BothResolved /\ ~destroyed /\ ~crashed) => (joinCount = 1 \/ autoReady(auto))

\* Reached: the profile lookup finished after the init message and the join ran.
C1_Witness ==
    /\ joinCount = 1
    /\ ev.type = "init_session"
    /\ ~Falsy(user)
    /\ ~Falsy(workspace)

\* C2 (as claimed): a session that handled a disconnect or a backend destroy before
\* both startup tasks had a result never runs init_session.
C2_NoJoinAfterEarlyDestroy == signalledEarly => joinCount = 0

Detached ==
    /\ \A e \in SockEvents \ {"init"} : socketL[e] = 0
    /\ \A e \in BackEvents : backL[e] = 0
    /\ \A e \in WsEvents : wsL[e] = 0

FreshSocket == [e \in SockEvents |-> IF e = "init" THEN 0 ELSE 1]
FreshBack == [e \in BackEvents |-> 1]
FreshWs == [e \in WsEvents |-> 1]

\* C3: no emitter carries more than one handler listener per event; listen() from
\* any reachable state, and again after an unlisten(), leaves exactly the listeners
\* of a first listen(); unlisten() with no workspace leaves the workspace object alone.
C3_OneListenerSet ==
    /\ \A e \in SockEvents : socketL[e] <= 1
    /\ \A e \in BackEvents : backL[e] <= 1
    /\ \A e \in WsEvents : wsL[e] <= 1
    /\ LET a == listen(State)
           b == listen(unlisten(State))
       IN  /\ a.socketL = FreshSocket /\ a.backL = FreshBack /\ a.backSub
           /\ ~Falsy(workspace) => a.wsL = FreshWs /\ a.wsSub
           /\ b.socketL = a.socketL /\ b.backL = a.backL /\ b.wsL = a.wsL
           /\ b.backSub = a.backSub /\ b.wsSub = a.wsSub
    /\ Falsy(workspace) =>
          LET u == unlisten(State)
          IN  u.wsL = wsL /\ u.wsSub = wsSub /\ u.wsCalls = wsCalls

\* Reached: listen() has run at construction and again in init_session, with a
\* workspace bound.
C3_Witness ==
    /\ joinCount = 1
    /\ ~Falsy(workspace)
    /\ wsL = FreshWs
    /\ socketL = FreshSocket
    /\ backL = FreshBack


Has(calls, methods) == \E i \in 1..Len(calls) : calls[i].m \in methods
Emits(name) == \E i \in 1..Len(emitted) : emitted[i].name = name

\* The last step passed a message on: client to back or workspace, or back or
\* workspace to client.
Routed ==
    \/ Has(backCalls, {"dataD"})
    \/ Has(wsCalls, {"dataD", "dataU"})
    \/ ev.type \in {"back.data", "ws.data", "ws.message", "ws.sesscode"} /\ emitted # <<>>

\* C4 (as claimed): after a termination signal has been handled, no step passes a
\* message on in either direction and no handler listener is attached.
C4_DestroyedIsSilent == [][signalled => (Detached' /\ ~Routed')]_vars

\* The last step told the workspace or the back channel of a teardown.
DestroyPropagated ==
    \/ Has(wsCalls, {"destroyD", "destroyU"})
    \/ \E i \in 1..Len(backCalls) :
          backCalls[i].m = "setSessCode" /\ backCalls[i].code = Null

\* C5 (as claimed): after the first termination signal has been handled, no later
\* step calls destroyD or destroyU on the workspace or clears the back channel's
\* session code.
C5_TeardownIdempotent == [][signalled => ~DestroyPropagated']_vars

Nullish(x) == x.t \in {"undefined", "null"}
SamePayload(a, b) == a = b \/ (Nullish(a) /\ Nullish(b))
HasPrefix(name) == Substr03(name) \in {PrefixOt, PrefixWs}

\* C6 (as claimed): a non-reserved client message with prefix ot. or ws. goes to the
\* workspace's dataD only, or nowhere without a workspace; any other non-reserved
\* message with no workspace goes to the back channel with its name and payload.
C6_RoutingDeterminism ==
    (ev.type = "client" /\ ev.name \notin Reserved) =>
        IF HasPrefix(ev.name)
        THEN /\ ~Has(backCalls, {"dataD"})
             /\ IF Falsy(workspace) THEN wsCalls = <<>>
                ELSE Len(wsCalls) = 1 /\ wsCalls[1].m = "dataD" /\ wsCalls[1].name = ev.name
        ELSE Falsy(workspace) =>
             /\ Len(backCalls) = 1
             /\ backCalls[1].m = "dataD"
             /\ backCalls[1].name = ev.name
             /\ SamePayload(backCalls[1].data, ev.data)

OwnsIn(usr, store, b) == ~Falsy(usr) /\ IdEquals(Get(usr, "_id"), store[b])
Owns(usr, b) == OwnsIn(usr, buckets, b)

\* C7: a bucket record is removed only by the session of its owner; a delete request
\* for a bucket of another user is answered with the not-owner message, leaves the
\* records alone, starts no removal and emits no bucket-deleted.
C7_OnlyOwnerDeletes ==
    [][/\ \A b \in BucketIds :
            (buckets[b] # NoOwner /\ buckets'[b] = NoOwner) =>
                Owns(user, b) /\ ev'.type = "bucket.remove"
       /\ (/\ ev'.type = "deleteBucket.findOne"
           /\ ev'.result = "found"
           /\ ~Owns(user, ev'.bucket_id.v[1])) =>
                /\ buckets' = buckets
                /\ emitted' = sendMessage([emitted |-> <<>>],
                                          Str("You are not the owner of that bucket")).emitted
                /\ \A c \in BagToSet(pending') : c.op # "bucket.remove" \/ c \in BagToSet(pending)
       /\ \A c \in BagToSet(pending') :
            c.op = "bucket.remove" =>
                buckets'[c.bucket_id.v[1]] = NoOwner \/ OwnsIn(user', buckets', c.bucket_id.v[1])
       /\ Emits("bucket-deleted")' => ev'.type = "bucket.remove" /\ ~Falsy(user)
      ]_vars

\* Reached: user B asked to delete A's bucket and was refused.
C7_Witness ==
    /\ ev.type = "deleteBucket.findOne"
    /\ ev.result = "found"
    /\ ~Falsy(user)
    /\ Get(user, "_id") = Str("B")
    /\ buckets["b1"] = "A"
    /\ Emits("alert")

\* The startup request asks for a plain session: no prior code, no info.
PlainSessionRequest(init) ==
    /\ Get(init, "action") = Str("session")
    /\ Falsy(Get(init, "sessCode"))
    /\ Falsy(Get(init, "info"))

\* C8: a sesscode event with code c sets the back channel's code to c, emits
\* sesscode {sessCode: c} to the client and, with a workspace referenced, records c
\* on it; the back channel's code changes in no other step but a backend destroy,
\* which clears it; a plain session request of a user without share key constructs
\* a NormalWorkspace with no session code and leaves the back channel's code alone.
C8_SessCodeFollowsWorkspace ==
    [][/\ ev'.type = "ws.sesscode" =>
            /\ backSessCode' = ev'.code
            /\ emitted' = <<[name |-> "sesscode",
                             data |-> [t |-> "object", sessCode |-> ev'.code]]>>
            /\ ~Falsy(workspace) => wsSessCode' = ev'.code
       /\ backSessCode' # backSessCode =>
            \/ ev'.type = "ws.sesscode" /\ backSessCode' = ev'.code
            \/ ev'.type = "back.destroy-u" /\ backSessCode' = Null
       /\ (/\ ev'.type = "init_session"
           /\ PlainSessionRequest(auto.init.res)
           /\ Falsy(Get(auto.user.res, "share_key"))) =>
            /\ wsArgs'.t = "NormalWorkspace"
            /\ Nullish(wsArgs'.sessCode)
            /\ backSessCode' = backSessCode
      ]_vars

\* Reached: a plain session's workspace emitted a second, different code.
C8_Witness ==
    /\ ev.type = "ws.sesscode"
    /\ PlainSessionRequest(auto.init.res)
    /\ wsArgs.t = "NormalWorkspace"
    /\ Nullish(wsArgs.sessCode)
    /\ backSessCode = Str("def456")
    /\ wsSessCode = Str("def456")

\* C9: when the bucket lookup of a bucket request finds nothing, the client gets the
\* message (console line, then alert) and then destroy-u "Unknown Bucket",
\* this.workspace becomes null, and neither init_session nor the lookup's callback
\* calls beginOctaveRequest.
C9_UnknownBucket ==
    /\ (ev.type = "loadBucket" /\ ev.result = "none") =>
          /\ emitted = Emit(sendMessage([emitted |-> <<>>],
                                        Concat(Str("Unable to find bucket: "), bucketId)),
                            "destroy-u", Str("Unknown Bucket")).emitted
          /\ workspace = Null
          /\ ~Has(wsCalls, {"beginOctaveRequest"})
    /\ (ev.type = "init_session" /\ Get(auto.init.res, "action") = Str("bucket")) =>
          ~Has(wsCalls, {"beginOctaveRequest"})

\* Reached: the lookup for bucket b2 found nothing.
C9_Witness ==
    /\ ev.type = "loadBucket"
    /\ ev.result = "none"
    /\ bucketId = Str("b2")
    /\ workspace = Null
    /\ Emits("destroy-u")

C11_LookupErrorProceeds ==
    (auto.user.st = "err" /\ auto.init.st = "ok" /\ ~crashed) =>
        \/ autoReady(auto)
        \/ joinCount = 1 /\ Falsy(user)

\* The bucket lookup that init_session started has not called back yet.
BucketLookupInFlight == Calls("loadBucket") # {}

\* C12 (as claimed): in a bucket session no step calls beginOctaveRequest while the
\* bucket lookup is still in flight.
C12_NoBeginBeforeBucketLoaded ==
    (Get(auto.init.res, "action") = Str("bucket") /\ BucketLookupInFlight) =>
        ~Has(wsCalls, {"beginOctaveRequest"})

\* The client disconnected after init_session had bound the workspace: onDestroyD
\* has taken the listeners off the workspace object.
DisconnectedAfterJoin ==
    /\ ~connected
    /\ wsArgs # NoWs
    /\ wsL = NoListeners(WsEvents)

\* C13 (as claimed): the bucket lookup's result that arrives after such a disconnect
\* is ignored: nothing is emitted and beginOctaveRequest is not called.
C13_LateBucketResultIgnored ==
    (ev.type = "loadBucket" /\ DisconnectedAfterJoin) =>
        /\ emitted = <<>>
        /\ ~Has(wsCalls, {"beginOctaveRequest"})

\* C14 (as claimed): the step that disables sharing and the step that finds no
\* bucket each call destroyD on the workspace the session references.
C14_ExplicitTeardownDestroysD ==
    /\ (/\ ev.type = "client"
        /\ ev.name = N_toggle_sharing
        /\ \E c \in BagToSet(pending) : c.op = "removeShareKey"
        /\ ~Falsy(workspace)) => Has(wsCalls, {"destroyD"})
    /\ (ev.type = "loadBucket" /\ ev.result = "none" /\ wsArgs # NoWs) =>
          Has(wsCalls, {"destroyD"})

\* C15 (as claimed): a workspace object the session no longer references carries no
\* handler listener and is not subscribed, and no event it emits reaches the client
\* or the back channel.
C15_OnlyCurrentWorkspaceListens ==
    Falsy(workspace) =>
        /\ wsL = NoListeners(WsEvents)
        /\ ~wsSub
        /\ ev.type \in {"ws.data", "ws.message", "ws.sesscode", "ws.back"} =>
              emitted = <<>> /\ backCalls = <<>>

\* C16: the step that handles the back channel's destroy-u with reason r emits
\* destroy-u r to the client, sets the back channel's session code to null and,
\* with a workspace referenced, calls destroyU(r) on it; a null session code of the
\* back channel is replaced only by the code of a workspace sesscode event.
C16_BackendDestroyStep ==
    [][/\ ev'.type = "back.destroy-u" =>
            /\ emitted' = <<[name |-> "destroy-u", data |-> ev'.message]>>
            /\ backSessCode' = Null
            /\ backCalls' = <<[m |-> "setSessCode", code |-> Null]>>
            /\ wsCalls' = IF Falsy(workspace) THEN <<>>
                          ELSE <<[m |-> "destroyU", reason |-> ev'.message]>>
       /\ (backSessCode = Null /\ backSessCode' # Null) =>
            ev'.type = "ws.sesscode" /\ backSessCode' = ev'.code
      ]_vars

\* Reached: the back server exited in a session whose workspace had announced a
\* session code.
C16_Witness ==
    /\ ev.type = "back.destroy-u"
    /\ ~Falsy(workspace)
    /\ wsSessCode = Str("abc123")
    /\ backSessCode = Null
    /\ Has(wsCalls, {"destroyU"})
    /\ Emits("destroy-u")

\* C17: the step that handles the client's disconnect calls destroyD("Client
\* Disconnect") on the referenced workspace, removes every listener from socket,
\* back and that workspace and unsubscribes back and workspace; on the back channel
\* it calls nothing else, its session code stays, and nothing is emitted.
C17_ClientDisconnectStep ==
    [][ev'.type = "disconnect" =>
         /\ wsCalls' = IF Falsy(workspace) THEN <<>>
                       ELSE <<[m |-> "destroyD", reason |-> Str("Client Disconnect")],
                              [m |-> "removeAllListeners"], [m |-> "unsubscribe"]>>
         /\ ~Falsy(workspace) => wsL' = NoListeners(WsEvents) /\ ~wsSub'
         /\ socketL' = NoListeners(SockEvents)
         /\ backL' = NoListeners(BackEvents)
         /\ ~backSub'
         /\ backCalls' = <<[m |-> "removeAllListeners"], [m |-> "unsubscribe"]>>
         /\ backSessCode' = backSessCode
         /\ emitted' = <<>>
      ]_vars

\* Reached: the client of a session with a workspace and a session code disconnected.
C17_Witness ==
    /\ ev.type = "disconnect"
    /\ ~Falsy(workspace)
    /\ backSessCode = Str("abc123")
    /\ Has(wsCalls, {"destroyD"})
    /\ wsL = NoListeners(WsEvents)
    /\ ~backSub

\* The dataD calls among the calls of the last step.
DataDCalls(calls) == {i \in 1..Len(calls) : calls[i].m = "dataD"}

\* C18: the step that handles a client message passes it to dataD of the workspace
\* and of the back channel as its name says: a reserved name to neither (init to
\* nothing at all, ping to onPing, update_students to onUpdateStudents, reconnect
\* to onOoReconnect); an ot. or ws. name to the workspace once, if there is one,
\* and never to back; data and save to back once and to the workspace once, if
\* there is one; any other name to back once and not to the workspace.
C18_DispatchExactlyOne ==
    ev.type = "client" =>
        LET w == Cardinality(DataDCalls(wsCalls))
            b == Cardinality(DataDCalls(backCalls))
            present == IF Falsy(workspace) THEN 0 ELSE 1
        IN  /\ \A i \in DataDCalls(wsCalls) : wsCalls[i].name = ev.name
            /\ \A i \in DataDCalls(backCalls) : backCalls[i].name = ev.name
            /\ IF ev.name \in Reserved THEN w = 0 /\ b = 0
               ELSE IF HasPrefix(ev.name) THEN w = present /\ b = 0
               ELSE IF ev.name \in {N_data, N_save} THEN w = present /\ b = 1
               ELSE w = 0 /\ b = 1
            /\ ev.name \notin Reserved => emitted = <<>>
            /\ ev.name = N_init => emitted = <<>> /\ wsCalls = <<>> /\ backCalls = <<>>
            /\ ev.name = N_ping => \A i \in 1..Len(emitted) : emitted[i].name = "oo.pong"
            /\ ev.name = N_update_students =>
                  \A i \in 1..Len(emitted) : emitted[i].name \in {"data", "alert"}
            /\ ev.name = N_reconnect =>
                  IF Falsy(workspace)
                  THEN emitted = <<[name |-> "destroy-u", data |-> Str("Invalid Session")]>>
                  ELSE wsCalls = <<BeginOctave>>

\* Reached: save went to the workspace and to the back channel in one step.
C18_Witness ==
    /\ ev.type = "client"
    /\ ev.name = N_save
    /\ ~Falsy(workspace)
    /\ Cardinality(DataDCalls(wsCalls)) = 1
    /\ Cardinality(DataDCalls(backCalls)) = 1

\* The step started exactly one bucket.save, for bucket id and owner as given.
SaveStarted(id, owner) ==
    \E c \in BagToSet(pending') :
        /\ c.op = "bucket.save"
        /\ c.bucket_id = id
        /\ c.user_id = owner
        /\ pending' = pending (+) SetToBag({c})

\* A bucket record appears, and bucket-created is emitted, only in the callback of
\* a bucket.save without error, and the record then belongs to the session's user.
CreatedOnlyAfterSave ==
    /\ \A b \in BucketIds :
          (buckets[b] = NoOwner /\ buckets'[b] # NoOwner) =>
              /\ ev'.type = "bucket.save"
              /\ ~ev'.err
              /\ OwnsIn(user, buckets', b)
    /\ Emits("bucket-created")' =>
          /\ ev'.type = "bucket.save"
          /\ ~ev'.err
          /\ \E b \in BucketIds : OwnsIn(user, buckets', b)

\* C19 (as claimed): a back data event is emitted to the client once, name and
\* payload unchanged, unless it is bucket-repo-created; that one is not emitted,
\* starts a bucket.save for the session's user when there is one, and changes
\* nothing and emits nothing when there is none; a record and bucket-created come
\* only from a successful save.
C19_BackendRelay ==
    [][/\ ev'.type = "back.data" =>
            IF ev'.name # "bucket-repo-created"
            THEN emitted' = <<[name |-> ev'.name, data |-> ev'.data]>>
            ELSE /\ emitted' = <<>>
                 /\ buckets' = buckets
                 /\ IF Falsy(user) THEN pending' = pending
                    ELSE SaveStarted(Get(ev'.data, "bucket_id"), Get(user, "_id"))
       /\ CreatedOnlyAfterSave
      ]_vars

\* C19 (amended): as above, but bucket-repo-created starts the save only when its
\* payload names a bucket id; without one it is dropped like the event of a
\* session without user.
C19_BackendRelayValidated ==
    [][/\ ev'.type = "back.data" =>
            IF ev'.name # "bucket-repo-created"
            THEN emitted' = <<[name |-> ev'.name, data |-> ev'.data]>>
            ELSE /\ emitted' = <<>>
                 /\ buckets' = buckets
                 /\ IF Falsy(user) \/ Falsy(Get(ev'.data, "bucket_id"))
                    THEN pending' = pending
                    ELSE SaveStarted(Get(ev'.data, "bucket_id"), Get(user, "_id"))
       /\ CreatedOnlyAfterSave
      ]_vars

\* Reached: the record of bucket b2 was saved for user A and bucket-created emitted.
C19_Witness ==
    /\ ev.type = "bucket.save"
    /\ ~ev.err
    /\ buckets["b2"] = "A"
    /\ Emits("bucket-created")
    /\ ~Falsy(user)

\* init_session left the session without workspace: nothing constructed, no
\* listener call on back or workspace, no bucket lookup, no beginOctaveRequest.
JoinWithoutWorkspace ==
    /\ wsArgs' = NoWs
    /\ workspace' = workspace
    /\ wsCalls' = <<>>
    /\ backCalls' = <<>>
    /\ socketL' = socketL /\ backL' = backL /\ wsL' = wsL
    /\ \A c \in BagToSet(pending') : c.op # "loadBucket"

\* C20: a workspace object is constructed in no step but init_session, and there
\* only once; its class and arguments follow the request's action and the profile:
\* workspace -> SharedWorkspace("default", info), student ->
\* SharedWorkspace("student", info), bucket -> NormalWorkspace(code, user, info),
\* anything else -> SharedWorkspace("host", user) if the user has a share key and
\* NormalWorkspace(code, user, null) if not, where code is the request's sessCode
\* (for action session without sessCode, its info); workspace, student and bucket
\* without info leave the session without workspace.
C20_WorkspaceVariant ==
    [][/\ wsArgs' # wsArgs => ev'.type = "init_session" /\ wsArgs = NoWs
       /\ ev'.type = "init_session" =>
            LET init == auto.init.res
                usr == auto.user.res
                action == Get(init, "action")
                info == Get(init, "info")
                code == IF action = Str("session") /\ Falsy(Get(init, "sessCode"))
                        THEN info ELSE Get(init, "sessCode")
            IN  IF action \in {Str("workspace"), Str("student"), Str("bucket")} /\ Falsy(info)
                THEN JoinWithoutWorkspace
                ELSE /\ workspace' = WsRef
                     /\ wsArgs' =
                          IF action = Str("workspace")
                          THEN [t |-> "SharedWorkspace", kind |-> "default", info |-> info]
                          ELSE IF action = Str("student")
                          THEN [t |-> "SharedWorkspace", kind |-> "student", info |-> info]
                          ELSE IF action = Str("bucket")
                          THEN [t |-> "NormalWorkspace", sessCode |-> code,
                                user |-> usr, bucketId |-> info]
                          ELSE IF ~Falsy(usr) /\ ~Falsy(Get(usr, "share_key"))
                          THEN [t |-> "SharedWorkspace", kind |-> "host", info |-> usr]
                          ELSE [t |-> "NormalWorkspace", sessCode |-> code,
                                user |-> usr, bucketId |-> Null]
      ]_vars

\* Reached: a user with a share key asked for a session and got the host workspace.
C20_Witness ==
    /\ ev.type = "init_session"
    /\ joinCount = 1
    /\ wsArgs # NoWs
    /\ wsArgs.t = "SharedWorkspace"
    /\ wsArgs.kind = "host"
    /\ Get(auto.init.res, "action") = Str("session")

====
